---------------------------- MODULE Spec2Model ----------------------------
(***************************************************************************)
(* Constraint and force-element layer of cannon-es: ContactMaterial,       *)
(* Spring and DistanceConstraint.                                          *)
(*                                                                         *)
(* Numbers are JavaScript doubles in the source.  They are modelled as     *)
(* fixed-point integers with FP units per 1.0 (two decimal digits); the    *)
(* inputs are drawn from sets on which every product, quotient and square  *)
(* root the code takes is exact in that representation.  A vector (Vec3)   *)
(* is a triple <<x, y, z>> of such numbers.  An optional argument is a set *)
(* that is empty (undefined) or holds the one value supplied.              *)
(***************************************************************************)
EXTENDS Integers, Sequences, FiniteSets, TLC

\* ------------------------------------------------------------------ bounds
MaxContactMaterials == 3
MaxSprings == 2
MaxConstraints == 1

\* ------------------------------------------------------------- numbers
FP == 100

Num(n) == n * FP
Mul(a, b) == (a * b) \div FP
Div(a, b) == (a * FP) \div b

RECURSIVE SqrtSearch(_, _, _)
SqrtSearch(n, lo, hi) ==
    IF lo >= hi THEN lo
    ELSE LET mid == (lo + hi + 1) \div 2
         IN IF mid * mid <= n THEN SqrtSearch(n, mid, hi)
                              ELSE SqrtSearch(n, lo, mid - 1)

RECURSIVE SqrtUpper(_, _)
SqrtUpper(n, h) == IF h * h > n THEN h ELSE SqrtUpper(n, 2 * h)

\* Math.sqrt on a fixed-point number
Sqrt(a) == SqrtSearch(a * FP, 0, SqrtUpper(a * FP, 1))

Supplied(o) == o # {}
Val(o) == CHOOSE x \in o : TRUE

\* ---------------------------------------------------------------- Vec3
Vec(x, y, z) == <<Num(x), Num(y), Num(z)>>
ZeroVec == <<0, 0, 0>>

vadd(a, b) == <<a[1] + b[1], a[2] + b[2], a[3] + b[3]>>
vsub(a, b) == <<a[1] - b[1], a[2] - b[2], a[3] - b[3]>>
mult(a, s) == <<Mul(a[1], s), Mul(a[2], s), Mul(a[3], s)>>
dot(a, b) == Mul(a[1], b[1]) + Mul(a[2], b[2]) + Mul(a[3], b[3])
cross(a, b) == << Mul(a[2], b[3]) - Mul(a[3], b[2]),
                  Mul(a[3], b[1]) - Mul(a[1], b[3]),
                  Mul(a[1], b[2]) - Mul(a[2], b[1]) >>
norm(a) == Sqrt(dot(a, a))
distanceTo(a, b) == norm(vsub(b, a))

\* normalize(): a vector of length 0 is left at <<0, 0, 0>>, which is not a
\* unit vector; every other vector is divided by its length.
normalize(a) ==
    LET n == norm(a)
    IN IF n > 0 THEN <<Div(a[1], n), Div(a[2], n), Div(a[3], n)>>
                ELSE ZeroVec

\* ---------------------------------------------------------------- state
VARIABLES
    idCounter,          \* ContactMaterial.idCounter
    contactMaterials,   \* the ContactMaterial instances, in construction order
    body,               \* Body -> [position, quaternion, velocity, angularVelocity, force, torque]
    springs,            \* the Spring instances, in construction order
    scratch,            \* the module-level applyForce_* vectors
    applied,            \* springs whose applyForce() ran in the current step
    step0,              \* force and torque of every body when the step began
    lastApply,          \* the latest applyForce(): spring and accumulators before it
    constraints         \* the DistanceConstraint instances

vars == <<idCounter, contactMaterials, body, springs, scratch, applied, step0,
          lastApply, constraints>>

cmVars == <<idCounter, contactMaterials>>
springVars == <<springs, scratch, applied, step0, lastApply>>
dcVars == <<constraints>>

\* ------------------------------------------------------ ContactMaterial
Materials == {"m1", "m2"}
FrictionOptions == {{}, {0}, {FP \div 2}}

ContactMaterialDefaults ==
    [friction |-> (3 * FP) \div 10,
     restitution |-> (3 * FP) \div 10,
     contactEquationStiffness |-> Num(10000000),
     contactEquationRelaxation |-> Num(3),
     frictionEquationStiffness |-> Num(10000000),
     frictionEquationRelaxation |-> Num(3)]

\* Utils.defaults(options, defaults): a field left undefined takes the default
defaults(options, dflt) ==
    [k \in DOMAIN dflt |->
        IF k \in DOMAIN options /\ Supplied(options[k]) THEN Val(options[k])
                                                         ELSE dflt[k]]

NewContactMaterial_noIncrement(m1, m2, options) ==
    /\ Len(contactMaterials) < MaxContactMaterials
    /\ LET o == defaults(options, ContactMaterialDefaults)
       IN contactMaterials' = Append(contactMaterials,
              [id |-> idCounter, materials |-> <<m1, m2>>,
               friction |-> o.friction, restitution |-> o.restitution,
               contactEquationStiffness |-> o.contactEquationStiffness,
               contactEquationRelaxation |-> o.contactEquationRelaxation,
               frictionEquationStiffness |-> o.frictionEquationStiffness,
               frictionEquationRelaxation |-> o.frictionEquationRelaxation])
    /\ idCounter' = idCounter
    /\ UNCHANGED <<body, springVars, dcVars>>

\* new ContactMaterial(m1, m2, options)
NewContactMaterial(m1, m2, options) ==
    /\ Len(contactMaterials) < MaxContactMaterials
    /\ LET o == defaults(options, ContactMaterialDefaults)
       IN contactMaterials' = Append(contactMaterials,
              [id |-> idCounter, materials |-> <<m1, m2>>,
               friction |-> o.friction, restitution |-> o.restitution,
               contactEquationStiffness |-> o.contactEquationStiffness,
               contactEquationRelaxation |-> o.contactEquationRelaxation,
               frictionEquationStiffness |-> o.frictionEquationStiffness,
               frictionEquationRelaxation |-> o.frictionEquationRelaxation])
    /\ idCounter' = idCounter + 1
    /\ UNCHANGED <<body, springVars, dcVars>>

\* ----------------------------------------------------------------- Body
Bodies == {1, 2}

\* quaternion.vmult(v): the orientations used are the identity and a quarter
\* turn about the z axis
vmult(q, v) == IF q = "Z90" THEN <<0 - v[2], v[1], v[3]>> ELSE v
\* quaternion.conjugate().vmult(v)
vmultConjugate(q, v) == IF q = "Z90" THEN <<v[2], 0 - v[1], v[3]>> ELSE v

\* Body.pointToLocalFrame(worldPoint, result)
pointToLocalFrame(b, worldPoint) == vmultConjugate(b.quaternion, vsub(worldPoint, b.position))
\* Body.pointToWorldFrame(localPoint, result)
pointToWorldFrame(b, localPoint) == vadd(vmult(b.quaternion, localPoint), b.position)

BodyAtRest ==
    [position |-> Vec(0, 0, 0), quaternion |-> "I",
     velocity |-> Vec(0, 0, 0), angularVelocity |-> Vec(0, 0, 0),
     force |-> Vec(0, 0, 0), torque |-> Vec(0, 0, 0)]

BodyStates ==
    { BodyAtRest,
      [position |-> Vec(3, 4, 0), quaternion |-> "Z90",
       velocity |-> Vec(1, 0, 0), angularVelocity |-> Vec(0, 0, 1),
       force |-> Vec(1, 2, 3), torque |-> Vec(0, 0, 5)],
      [position |-> Vec(3, 0, 0), quaternion |-> "I",
       velocity |-> Vec(1, 0, 0), angularVelocity |-> Vec(2, 0, 0),
       force |-> Vec(0, -1, 0), torque |-> Vec(2, 0, 0)] }

\* ---------------------------------------------------------------- Spring
NoOptions ==
    [restLength |-> {}, stiffness |-> {}, damping |-> {},
     localAnchorA |-> {}, localAnchorB |-> {},
     worldAnchorA |-> {}, worldAnchorB |-> {}]

SpringOptionSet ==
    { NoOptions,
      [NoOptions EXCEPT !.restLength = {Num(2)}, !.stiffness = {Num(3)},
                        !.damping = {Num(2)}, !.localAnchorA = {Vec(3, 0, 0)}],
      [NoOptions EXCEPT !.restLength = {Num(5)}, !.stiffness = {0},
                        !.damping = {0},
                        !.worldAnchorA = {Vec(3, 0, 0)},
                        !.worldAnchorB = {Vec(0, 4, 0)}],
      [NoOptions EXCEPT !.restLength = {Num(-1)}, !.stiffness = {Num(-2)},
                        !.damping = {Num(-1)}, !.localAnchorB = {Vec(0, 4, 0)}] }

\* the length and the unit direction of r are exact in the fixed-point numbers
Representable(r) ==
    LET n == norm(r)
    IN /\ n * n = r[1] * r[1] + r[2] * r[2] + r[3] * r[3]
       /\ n > 0 => \A i \in 1..3 : (r[i] * FP) % n = 0

\* options.restLength: typeof options.restLength === 'number' ? ... : 1
SpringRestLength(options) ==
    IF Supplied(options.restLength) THEN Val(options.restLength) ELSE Num(1)

\* options.stiffness || 100: undefined and 0 are falsy
SpringStiffness(options) ==
    IF Supplied(options.stiffness) /\ Val(options.stiffness) # 0
    THEN Val(options.stiffness) ELSE Num(100)

\* options.damping || 1
SpringDamping(options) ==
    IF Supplied(options.damping) /\ Val(options.damping) # 0
    THEN Val(options.damping) ELSE Num(1)

\* the local anchors after the constructor's four if-statements
SpringLocalAnchor(b, localAnchor, worldAnchor) ==
    LET copied == IF Supplied(localAnchor) THEN Val(localAnchor) ELSE ZeroVec
    IN IF Supplied(worldAnchor) THEN pointToLocalFrame(b, Val(worldAnchor))
                                ELSE copied

\* the object new Spring(bodyA, bodyB, options) builds; given is the history of
\* the options it was built from
Spring(bodyA, bodyB, options) ==
    [restLength |-> SpringRestLength(options),
     stiffness |-> SpringStiffness(options),
     damping |-> SpringDamping(options),
     bodyA |-> bodyA,
     bodyB |-> bodyB,
     localAnchorA |-> SpringLocalAnchor(body[bodyA], options.localAnchorA, options.worldAnchorA),
     localAnchorB |-> SpringLocalAnchor(body[bodyB], options.localAnchorB, options.worldAnchorB),
     given |-> options]

\* new Spring(bodyA, bodyB, options).  The springs followed connect two
\* different bodies, and their anchors are such that the spring's length and
\* direction are exact in the fixed-point numbers.
NewSpring(bodyA, bodyB, options) ==
    /\ Len(springs) < MaxSprings
    /\ bodyA # bodyB
    /\ LET s == Spring(bodyA, bodyB, options)
       IN /\ Representable(vsub(pointToWorldFrame(body[bodyB], s.localAnchorB),
                                pointToWorldFrame(body[bodyA], s.localAnchorA)))
          /\ springs' = Append(springs, s)
    /\ UNCHANGED <<cmVars, body, scratch, applied, step0, lastApply, dcVars>>

AnchorOffset_noSub(worldAnchor, position) == worldAnchor

\* Get offset points: worldAnchor.vsub(body.position, ri)
AnchorOffset(worldAnchor, position) == vsub(worldAnchor, position)

\* Compute relative velocity of the anchor points, u
RelativeVelocity(bA, bB, ri, rj) ==
    LET u1 == vsub(bB.velocity, bA.velocity)
        tmp1 == cross(bB.angularVelocity, rj)
        u2 == vadd(u1, tmp1)
        tmp2 == cross(bA.angularVelocity, ri)
    IN vsub(u2, tmp2)

SpringForce_signFlipped(k, d, l, rlen, u, r_unit) ==
    mult(r_unit, Mul(k, rlen - l) - Mul(d, dot(u, r_unit)))

\* F = - k * ( x - L ) - D * ( u )
SpringForce(k, d, l, rlen, u, r_unit) ==
    mult(r_unit, Mul(0 - k, rlen - l) - Mul(d, dot(u, r_unit)))

AddForces_overwrite(bd, bodyA, bodyB, f) ==
    LET b1 == [bd EXCEPT ![bodyA].force = vsub(ZeroVec, f)]
    IN [b1 EXCEPT ![bodyB].force = vadd(@, f)]

\* Add forces to bodies
AddForces(bd, bodyA, bodyB, f) ==
    LET b1 == [bd EXCEPT ![bodyA].force = vsub(@, f)]
    IN [b1 EXCEPT ![bodyB].force = vadd(@, f)]

\* Angular force
AddTorques(bd, bodyA, bodyB, ri, rj, f) ==
    LET ri_x_f == cross(ri, f)
        rj_x_f == cross(rj, f)
        b1 == [bd EXCEPT ![bodyA].torque = vsub(@, ri_x_f)]
    IN [b1 EXCEPT ![bodyB].torque = vadd(@, rj_x_f)]

\* The vectors one applyForce() of spring s computes from the bodies bd, in the
\* order the code writes them
ApplyForceVectors(bd, s) ==
    LET bA == bd[s.bodyA]
        bB == bd[s.bodyB]
        worldAnchorA == pointToWorldFrame(bA, s.localAnchorA)
        worldAnchorB == pointToWorldFrame(bB, s.localAnchorB)
        ri == AnchorOffset(worldAnchorA, bA.position)
        rj == AnchorOffset(worldAnchorB, bB.position)
        r == vsub(worldAnchorB, worldAnchorA)
        rlen == norm(r)
        r_unit == normalize(r)
        u == RelativeVelocity(bA, bB, ri, rj)
        f == SpringForce(s.stiffness, s.damping, s.restLength, rlen, u, r_unit)
    IN [r |-> r, r_unit |-> r_unit, u |-> u, f |-> f,
        tmp |-> cross(bA.angularVelocity, ri),
        worldAnchorA |-> worldAnchorA, worldAnchorB |-> worldAnchorB,
        ri |-> ri, rj |-> rj,
        ri_x_f |-> cross(ri, f), rj_x_f |-> cross(rj, f)]

\* The bodies after one applyForce() of spring s on the bodies bd
AfterApplyForce(bd, s) ==
    LET v == ApplyForceVectors(bd, s)
    IN AddTorques(AddForces(bd, s.bodyA, s.bodyB, v.f),
                  s.bodyA, s.bodyB, v.ri, v.rj, v.f)

\* springs[i].applyForce(), once per spring and step
applyForce(i) ==
    /\ i \in 1..Len(springs)
    /\ i \notin applied
    /\ scratch' = ApplyForceVectors(body, springs[i])
    /\ body' = AfterApplyForce(body, springs[i])
    /\ applied' = applied \cup {i}
    /\ lastApply' = [spring |-> i, before |-> body]
    /\ UNCHANGED <<cmVars, springs, step0, dcVars>>

ZeroScratch ==
    [r |-> ZeroVec, r_unit |-> ZeroVec, u |-> ZeroVec, f |-> ZeroVec,
     tmp |-> ZeroVec, worldAnchorA |-> ZeroVec, worldAnchorB |-> ZeroVec,
     ri |-> ZeroVec, rj |-> ZeroVec, ri_x_f |-> ZeroVec, rj_x_f |-> ZeroVec]

\* ---------------------------------------------------- DistanceConstraint
DistanceOptions == {{}, {Num(3)}}
MaxForceOptions == {{}, {Num(5)}, {Num(-5)}}
Positions == {Vec(0, 0, 0), Vec(3, 4, 0)}

\* constructor(bodyA, bodyB, distance?, maxForce = 1e6)
DefaultMaxForce == Num(1000000)

\* new ContactEquation(bodyA, bodyB): the bounds of a contact, ni, ri and rj
\* new vectors
ContactEquation(bodyA, bodyB) ==
    [bi |-> bodyA, bj |-> bodyB, minForce |-> 0, maxForce |-> DefaultMaxForce,
     ni |-> ZeroVec, ri |-> ZeroVec, rj |-> ZeroVec]

\* super(bodyA, bodyB): a constraint of two bodies that owns no equation yet
Constraint(bodyA, bodyB) ==
    [bodyA |-> bodyA, bodyB |-> bodyB, equations |-> <<>>]

ConstraintDistance_fromOrigin(distance, positionA, positionB) ==
    IF Supplied(distance) THEN Val(distance) ELSE norm(positionB)

\* if (typeof distance === 'undefined') distance = bodyA.position.distanceTo(bodyB.position)
ConstraintDistance(distance, positionA, positionB) ==
    IF Supplied(distance) THEN Val(distance) ELSE distanceTo(positionA, positionB)

\* Make it bidirectional
Bidirectional(eq, maxForce) ==
    [eq EXCEPT !.minForce = 0 - maxForce, !.maxForce = maxForce]

\* The object new DistanceConstraint(bodyA, bodyB, distance, maxForce) builds.
\* heap holds the equation objects; equations and distanceEquation refer to
\* them by their place in it.  given, builtAt and streak are history: the
\* arguments, the centers at construction and the number of update() calls
\* since the bodies last moved (counted to 2).
DistanceConstraint(bodyA, bodyB, distance, maxForce) ==
    LET base == Constraint(bodyA, bodyB)
        mf == IF Supplied(maxForce) THEN Val(maxForce) ELSE DefaultMaxForce
        eq == ContactEquation(bodyA, bodyB)
    IN [bodyA |-> base.bodyA,
        bodyB |-> base.bodyB,
        distance |-> ConstraintDistance(distance, body[bodyA].position, body[bodyB].position),
        heap |-> <<Bidirectional(eq, mf)>>,
        distanceEquation |-> 1,
        equations |-> Append(base.equations, 1),
        given |-> [distance |-> distance, maxForce |-> maxForce],
        builtAt |-> <<body[bodyA].position, body[bodyB].position>>,
        streak |-> 0]

\* new DistanceConstraint(bodyA, bodyB, distance, maxForce); the constraints
\* followed couple two different bodies
NewDistanceConstraint(bodyA, bodyB, distance, maxForce) ==
    /\ Len(constraints) < MaxConstraints
    /\ bodyA # bodyB
    /\ constraints' = Append(constraints,
                             DistanceConstraint(bodyA, bodyB, distance, maxForce))
    /\ UNCHANGED <<cmVars, body, springVars>>

UpdatedEquation_staleNormal(eq, positionA, positionB, distance) ==
    LET halfDist == Mul(distance, FP \div 2)
        normal == normalize(vsub(positionB, positionA))
    IN [eq EXCEPT !.ni = normal,
                  !.ri = mult(eq.ni, halfDist),
                  !.rj = mult(eq.ni, 0 - halfDist)]

\* the distance equation after update()
UpdatedEquation(eq, positionA, positionB, distance) ==
    LET halfDist == Mul(distance, FP \div 2)
        normal == normalize(vsub(positionB, positionA))
    IN [eq EXCEPT !.ni = normal,
                  !.ri = mult(normal, halfDist),
                  !.rj = mult(normal, 0 - halfDist)]

\* constraints[i].update()
update(i) ==
    /\ i \in 1..Len(constraints)
    /\ LET c == constraints[i]
           eq == c.heap[c.distanceEquation]
           new == UpdatedEquation(eq, body[c.bodyA].position,
                                  body[c.bodyB].position, c.distance)
       IN constraints' = [constraints EXCEPT
              ![i].heap[c.distanceEquation] = new,
              ![i].streak = IF c.streak < 2 THEN c.streak + 1 ELSE 2]
    /\ UNCHANGED <<cmVars, body, springVars>>

\* The stepping loop moves a body between steps
MoveBody(b, p) ==
    /\ p # body[b].position
    /\ body' = [body EXCEPT ![b].position = p]
    /\ constraints' = [i \in 1..Len(constraints) |->
                          [constraints[i] EXCEPT !.streak = 0]]
    /\ UNCHANGED <<cmVars, springVars>>

\* --------------------------------------------------------- specifications
InitCM ==
    /\ idCounter = 0
    /\ contactMaterials = <<>>

InitSprings ==
    /\ springs = <<>>
    /\ scratch = ZeroScratch
    /\ applied = {}
    /\ step0 = body
    /\ lastApply = [spring |-> 0, before |-> body]

InitDC ==
    /\ constraints = <<>>

\* ContactMaterial constructions in one process
CMInit ==
    /\ body = [b \in Bodies |-> BodyAtRest]
    /\ InitCM /\ InitSprings /\ InitDC

CMNext ==
    \E m1 \in Materials, m2 \in Materials, fr \in FrictionOptions :
        NewContactMaterial(m1, m2, [friction |-> fr])

CMSpec == CMInit /\ [][CMNext]_vars

\* Springs built on two bodies and applied within one step
SpringInit ==
    /\ body \in [Bodies -> BodyStates]
    /\ InitCM /\ InitSprings /\ InitDC

SpringNext ==
    \/ \E bodyA \in Bodies, bodyB \in Bodies, options \in SpringOptionSet :
          NewSpring(bodyA, bodyB, options)
    \/ \E i \in 1..MaxSprings : applyForce(i)

SpringSpec == SpringInit /\ [][SpringNext]_vars

\* A distance constraint on two bodies that move between updates
DCInit ==
    /\ body \in [Bodies -> {[s EXCEPT !.position = p] : s \in {BodyAtRest}, p \in Positions}]
    /\ InitCM /\ InitSprings /\ InitDC

DCNext ==
    \/ \E bodyA \in Bodies, bodyB \in Bodies,
          distance \in DistanceOptions, maxForce \in MaxForceOptions :
          NewDistanceConstraint(bodyA, bodyB, distance, maxForce)
    \/ \E i \in 1..MaxConstraints : update(i)
    \/ \E b \in Bodies, p \in Positions : MoveBody(b, p)

DCSpec == DCInit /\ [][DCNext]_vars

\* ------------------------------------------------------------------ claims

\* C1: the first ContactMaterial constructed gets id 0 and every later one an
\* id strictly greater than all ids assigned before it, so no id is shared or
\* reused.
C1_IdsStrictlyIncreasing ==
    /\ Len(contactMaterials) > 0 => contactMaterials[1].id = 0
    /\ \A i \in 1..Len(contactMaterials) : \A j \in 1..Len(contactMaterials) :
          i < j => contactMaterials[i].id < contactMaterials[j].id

C1_Witness ==
    /\ Len(contactMaterials) >= 3
    /\ contactMaterials[1].materials = contactMaterials[3].materials
    /\ contactMaterials[2].friction # contactMaterials[3].friction

\* What applyForce() of spring s adds to the bodies when it is applied alone,
\* on accumulators that hold nothing
Unloaded == [b \in Bodies |-> [body[b] EXCEPT !.force = ZeroVec, !.torque = ZeroVec]]
Alone(s) == AfterApplyForce(Unloaded, s)

RECURSIVE SumAlone(_, _, _)
SumAlone(n, b, field) ==
    IF n = 0 THEN ZeroVec
    ELSE vadd(SumAlone(n - 1, b, field),
              IF n \in applied THEN Alone(springs[n])[b][field] ELSE ZeroVec)

\* C2: applyForce() only adds to force and torque: after the springs applied
\* so far in this step, in whatever order, every body's force and torque is
\* its value at the start of the step plus the sum of what each applied spring
\* contributes when applied alone.
C2_AdditiveAccumulation ==
    \A b \in Bodies :
        /\ body[b].force = vadd(step0[b].force, SumAlone(Len(springs), b, "force"))
        /\ body[b].torque = vadd(step0[b].torque, SumAlone(Len(springs), b, "torque"))

C2_Witness ==
    /\ Cardinality(applied) = 2
    /\ lastApply.spring = 1
    /\ \A i \in applied : \A b \in Bodies : Alone(springs[i])[b].force # ZeroVec
    /\ \A i \in applied : \E b \in Bodies : Alone(springs[i])[b].torque # ZeroVec
    /\ Alone(springs[1]) # Alone(springs[2])
    /\ step0[1].force # ZeroVec
    /\ step0[1].torque # ZeroVec

\* the geometry of the latest applyForce(), from the bodies it read
LastSpring == springs[lastApply.spring]
LastAnchorA == pointToWorldFrame(lastApply.before[LastSpring.bodyA], LastSpring.localAnchorA)
LastAnchorB == pointToWorldFrame(lastApply.before[LastSpring.bodyB], LastSpring.localAnchorB)
LastR == vsub(LastAnchorB, LastAnchorA)
LastRlen == norm(LastR)
AnchorVelocity(b, anchor) ==
    vadd(b.velocity, cross(b.angularVelocity, vsub(anchor, b.position)))
LastAnchorsAtRelativeRest ==
    AnchorVelocity(lastApply.before[LastSpring.bodyA], LastAnchorA)
        = AnchorVelocity(lastApply.before[LastSpring.bodyB], LastAnchorB)
ForceChange(b) == vsub(body[b].force, lastApply.before[b].force)
TorqueChange(b) == vsub(body[b].torque, lastApply.before[b].torque)

\* C7: with zero relative anchor velocity and distinct anchors, applyForce()
\* changes bodyB's force by -stiffness*(rlen - restLength) times the unit vector
\* from anchor A to anchor B and bodyA's force by the opposite: nothing at rest
\* length, and for rlen > restLength and stiffness >= 0 a pull of bodyA toward
\* bodyB and of bodyB toward bodyA.
C7_HookeanForce ==
    (lastApply.spring # 0 /\ LastAnchorsAtRelativeRest /\ LastRlen > 0) =>
        LET k == LastSpring.stiffness
            stretch == LastRlen - LastSpring.restLength
            dA == ForceChange(LastSpring.bodyA)
            dB == ForceChange(LastSpring.bodyB)
        IN /\ mult(dB, LastRlen) = mult(LastR, Mul(0 - k, stretch))
           /\ dA = vsub(ZeroVec, dB)
           /\ dB[1] * dB[1] + dB[2] * dB[2] + dB[3] * dB[3]
                 = Mul(k, stretch) * Mul(k, stretch)
           /\ stretch = 0 => dA = ZeroVec /\ dB = ZeroVec
           /\ (stretch > 0 /\ k > 0) => dot(dA, LastR) > 0 /\ dot(dB, LastR) < 0

C7_Witness ==
    /\ lastApply.spring # 0
    /\ LastAnchorsAtRelativeRest
    /\ LastRlen > LastSpring.restLength
    /\ LastSpring.stiffness > 0
    /\ lastApply.before[LastSpring.bodyA].velocity # ZeroVec
    /\ LastR[1] # 0 /\ LastR[2] # 0
    /\ ForceChange(LastSpring.bodyB) # ZeroVec

C7_WitnessRestLength ==
    /\ lastApply.spring # 0
    /\ LastAnchorsAtRelativeRest
    /\ LastRlen > 0
    /\ LastRlen = LastSpring.restLength

\* C9: with both local anchors at the body centers, applyForce() leaves the
\* torque of bodyA and of bodyB as it was, whatever force it applies.
C9_NoTorqueAtCenters ==
    (/\ lastApply.spring # 0
     /\ LastSpring.localAnchorA = ZeroVec
     /\ LastSpring.localAnchorB = ZeroVec) =>
        /\ TorqueChange(LastSpring.bodyA) = ZeroVec
        /\ TorqueChange(LastSpring.bodyB) = ZeroVec

C9_Witness ==
    /\ lastApply.spring # 0
    /\ LastSpring.localAnchorA = ZeroVec
    /\ LastSpring.localAnchorB = ZeroVec
    /\ ForceChange(LastSpring.bodyB) # ZeroVec
    /\ lastApply.before[LastSpring.bodyA].position # ZeroVec
    /\ lastApply.before[LastSpring.bodyB].position # ZeroVec
    /\ lastApply.before[LastSpring.bodyB].angularVelocity # ZeroVec
    /\ lastApply.before[LastSpring.bodyB].torque # ZeroVec

\* C5: invalid configuration is rejected at construction: no Spring exists
\* that was built with a negative stiffness, damping or restLength, and no
\* DistanceConstraint exists whose equation has minForce > maxForce.
C5_InvalidConfigurationRejected ==
    /\ \A i \in 1..Len(springs) :
          \A k \in {"stiffness", "damping", "restLength"} :
              Supplied(springs[i].given[k]) => Val(springs[i].given[k]) >= 0
    /\ \A i \in 1..Len(constraints) :
          LET eq == constraints[i].heap[constraints[i].distanceEquation]
          IN eq.minForce <= eq.maxForce

\* C6: a Spring stores restLength (> 0), stiffness (>= 0) and damping (>= 0)
\* exactly as supplied, and takes the defaults 1, 100 and 1 only for a field
\* that was not supplied.
C6_OptionsStoredAsSupplied ==
    \A i \in 1..Len(springs) :
        LET s == springs[i]
            g == s.given
        IN /\ IF Supplied(g.restLength)
              THEN Val(g.restLength) > 0 => s.restLength = Val(g.restLength)
              ELSE s.restLength = Num(1)
           /\ IF Supplied(g.stiffness)
              THEN Val(g.stiffness) >= 0 => s.stiffness = Val(g.stiffness)
              ELSE s.stiffness = Num(100)
           /\ IF Supplied(g.damping)
              THEN Val(g.damping) >= 0 => s.damping = Val(g.damping)
              ELSE s.damping = Num(1)

\* the distance equation of a constraint and the square of a vector's length
EquationOf(c) == c.heap[c.distanceEquation]
SquaredLength(v) == v[1] * v[1] + v[2] * v[2] + v[3] * v[3]
Centers(c) == <<body[c.bodyA].position, body[c.bodyB].position>>
SameDirection(a, b) ==
    /\ a[2] * b[3] = a[3] * b[2]
    /\ a[3] * b[1] = a[1] * b[3]
    /\ a[1] * b[2] = a[2] * b[1]
    /\ a[1] * b[1] + a[2] * b[2] + a[3] * b[3] > 0

AfterUpdate(c) ==
    LET eq == EquationOf(c)
    IN /\ SquaredLength(eq.ni) = FP * FP
       /\ eq.ri = vsub(ZeroVec, eq.rj)
       /\ 4 * SquaredLength(eq.ri) = c.distance * c.distance
       /\ 4 * SquaredLength(eq.rj) = c.distance * c.distance
       /\ Centers(c)[1] # Centers(c)[2] =>
              SameDirection(eq.ni, vsub(Centers(c)[2], Centers(c)[1]))

\* C3: for every positive distance and every pair of positions, coincident
\* centers included, after update() ni has unit length, ri = -rj,
\* |ri| = |rj| = distance/2, and ni points from bodyA's center to bodyB's when
\* the centers differ.
C3_UnitNormalAndHalfDistanceArms ==
    \A i \in 1..Len(constraints) :
        (constraints[i].streak >= 1 /\ constraints[i].distance > 0) =>
            AfterUpdate(constraints[i])

\* The same, for centers that differ
C3_WhenCentersDiffer ==
    \A i \in 1..Len(constraints) :
        (/\ constraints[i].streak >= 1
         /\ constraints[i].distance > 0
         /\ Centers(constraints[i])[1] # Centers(constraints[i])[2]) =>
            AfterUpdate(constraints[i])

\* C4: every DistanceConstraint, for any maxForce argument and after any
\* updates and body motion, owns exactly one equation, its distanceEquation on
\* the same two bodies, with minForce = -maxForce and minForce <= maxForce, and
\* maxForce = 1e6 when the argument is omitted.
C4_OneBidirectionalEquation ==
    \A i \in 1..Len(constraints) :
        LET c == constraints[i]
            eq == EquationOf(c)
        IN /\ Len(c.equations) = 1
           /\ c.equations[1] = c.distanceEquation
           /\ eq.bi = c.bodyA /\ eq.bj = c.bodyB
           /\ eq.minForce = 0 - eq.maxForce
           /\ eq.minForce <= eq.maxForce
           /\ ~Supplied(c.given.maxForce) => eq.maxForce = Num(1000000)

\* C8: without a distance argument the constraint's distance is the Euclidean
\* distance between the two centers at construction, a supplied distance is
\* stored as given, and body motion and update() never change it.
C8_DistanceFixedAtConstruction ==
    \A i \in 1..Len(constraints) :
        LET c == constraints[i]
        IN IF Supplied(c.given.distance)
           THEN c.distance = Val(c.given.distance)
           ELSE /\ c.distance >= 0
                /\ c.distance * c.distance
                      = SquaredLength(vsub(c.builtAt[2], c.builtAt[1]))

C8_Witness ==
    \E i \in 1..Len(constraints) :
        LET c == constraints[i]
        IN /\ ~Supplied(c.given.distance)
           /\ c.distance > 0
           /\ c.builtAt[1] # ZeroVec
           /\ c.streak >= 1
           /\ Centers(c) # c.builtAt
           /\ Centers(c)[1] = Centers(c)[2]

C8_WitnessSupplied ==
    \E i \in 1..Len(constraints) :
        LET c == constraints[i]
        IN /\ Supplied(c.given.distance)
           /\ c.streak >= 1
           /\ Centers(c) # c.builtAt
           /\ c.distance * c.distance
                 # SquaredLength(vsub(c.builtAt[2], c.builtAt[1]))

\* C10: update() is idempotent: a second update() with no body motion since
\* the first leaves ni, ri and rj as the first left them.
C10_UpdateIdempotent ==
    [][\A i \in 1..Len(constraints) :
          constraints'[i].streak = 2 =>
              /\ EquationOf(constraints'[i]).ni = EquationOf(constraints[i]).ni
              /\ EquationOf(constraints'[i]).ri = EquationOf(constraints[i]).ri
              /\ EquationOf(constraints'[i]).rj = EquationOf(constraints[i]).rj]_vars

C10_Witness ==
    \E i \in 1..Len(constraints) :
        LET c == constraints[i]
        IN /\ c.streak = 2
           /\ Centers(c) # c.builtAt
           /\ EquationOf(c).ni[1] # 0 /\ EquationOf(c).ni[2] # 0
           /\ EquationOf(c).ri # ZeroVec

=============================================================================
